---------------------------- MODULE Spec2Model ----------------------------
(***************************************************************************)
(* A model of tiny-workloads (src/main.go): the Bubble Tea wizard that     *)
(* collects a ConfigSpec, the three rule goroutines decideCompute,         *)
(* decideNetwork and decideStorage, the aggregator                         *)
(* collectTimedResourceSpecs that joins them over a buffered channel, and  *)
(* the manifest / summary generation of the ProcessCompleteMsg handler.    *)
(*                                                                         *)
(* Conventions.                                                            *)
(*  - A text is a sequence of one-character strings (<<"3","5","0">>), so  *)
(*    that strconv.Atoi can be modelled on its characters.                 *)
(*  - A float64 number of cores is kept as the exact rational it stands    *)
(*    for, in units of 1/600 core (150, 4 and 5 divide 600); float64       *)
(*    rounding error is outside the model.                                 *)
(*  - A Go error is a string, NoErr standing for nil.                      *)
(*  - A Go map is a record [isNil, kv]: a nil map and an empty map differ. *)
(*  - TimedResult.Duration (measured wall-clock time) and the lipgloss     *)
(*    styles are presentation and are left out.  The spinner and the       *)
(*    window size change with TickMsg and WindowSizeMsg only; these two    *)
(*    messages are part of SpecMessages.                                   *)
(*  - p.Run is taken to return without an error (it returns one only when  *)
(*    the terminal fails or the program is killed).                        *)
(***************************************************************************)
EXTENDS Integers, Sequences, FiniteSets, TLC

VARIABLES
    inputs,           \* m.inputs: [0..3 -> [value, focus]]
    listIndex,        \* m.list.Index(): the selected importance item
    focused,          \* m.focused
    inputState,       \* m.inputState
    quitting,         \* m.quitting
    config,           \* m.config
    processing,       \* m.processing
    result,           \* m.result
    err,              \* m.err
    k8sManifestPath,  \* m.k8sManifestPath
    output,           \* m.output
    tasks,            \* the three rule goroutines: [pc, Error]
    resultChan,       \* resultChan: the buffered channel's queue
    agg,              \* collectTimedResourceSpecs: [pc, i, timedResults, ret]
    files,            \* the k8s directory: path -> manifest written
    quitCmd,          \* a tea.Quit command was returned and is pending
    running,          \* the tea.Program is running (p.Run has not returned)
    exitCode,         \* the exit code of the process, -1 while it runs
    validateBlocks,   \* the textinput of the build refuses a value that
                      \* fails Validate (older bubbles) or keeps it (newer)
    spinnerFrame,     \* m.spinnerFrame
    width,            \* m.width
    height,           \* m.height
    ticks             \* the tickCmd commands that have not yet sent their TickMsg

modelVars == <<inputs, listIndex, focused, inputState, quitting, config,
               processing, result, err, k8sManifestPath, output>>
procVars  == <<tasks, resultChan, agg>>
envVars   == <<files, quitCmd, running, exitCode, validateBlocks>>
viewVars  == <<spinnerFrame, width, height, ticks>>
vars      == <<modelVars, procVars, envVars, viewVars>>

-----------------------------------------------------------------------------
(* Bounds of the model *)

\* The longest text typed into one field (at most the numeric CharLimit).
MaxText == 3

-----------------------------------------------------------------------------
(* Values *)

NoErr == "<nil>"

Tasks == {"compute", "network", "storage"}

\* items of the importance list, by index
Items == <<"high", "medium", "low">>

NilMap   == [isNil |-> TRUE,  kv |-> [k \in {} |-> 0]]
EmptyMap == [isNil |-> FALSE, kv |-> [k \in {} |-> 0]]

\* timedResults[k] = v
MapPut(m, k, v) ==
    [isNil |-> FALSE,
     kv    |-> [j \in DOMAIN m.kv \cup {k} |-> IF j = k THEN v ELSE m.kv[j]]]

ZeroComputeSpec == [CPU |-> 0, Memory |-> ""]
ZeroNetworkSpec == [Bandwidth |-> "", Ports |-> <<>>]
ZeroStorageSpec == [Capacity |-> "", Class |-> ""]
ZeroResult ==
    [Name |-> "", ComputeSpec |-> ZeroComputeSpec, NetworkSpec |-> ZeroNetworkSpec,
     StorageSpec |-> ZeroStorageSpec, Error |-> NoErr]

\* timedResults[k]: the zero value when the key is absent
MapGet(m, k) == IF k \in DOMAIN m.kv THEN m.kv[k] ELSE ZeroResult

ZeroConfig ==
    [AppName |-> <<>>, ExpectedLoad |-> 0, DataSize |-> 0, NetworkTraffic |-> 0,
     ImportanceLevel |-> ""]

-----------------------------------------------------------------------------
(* Texts and strconv.Atoi *)

Digits == <<"0", "1", "2", "3", "4", "5", "6", "7", "8", "9">>

IsDigit(c) == \E d \in 1..10 : Digits[d] = c

DigitVal(c) == (CHOOSE d \in 1..10 : Digits[d] = c) - 1

\* string(text)
RECURSIVE Join(_)
Join(s) == IF s = <<>> THEN "" ELSE Head(s) \o Join(Tail(s))

\* the value of a non-empty sequence of digits
RECURSIVE DigitsVal(_)
DigitsVal(s) ==
    IF s = <<>> THEN 0
    ELSE 10 * DigitsVal(SubSeq(s, 1, Len(s) - 1)) + DigitVal(s[Len(s)])

\* strconv.Atoi: an optional sign, then at least one digit and digits only.
\* A text of at most 6 characters cannot be out of range.
Atoi(s) ==
    LET signed == Len(s) > 0 /\ s[1] \in {"+", "-"}
        body   == IF signed THEN Tail(s) ELSE s
        v      == DigitsVal(body)
    IN  IF body = <<>> \/ \E i \in 1..Len(body) : ~IsDigit(body[i])
        THEN [val |-> 0,
              err |-> "strconv.Atoi: parsing \"" \o Join(s) \o "\": invalid syntax"]
        ELSE [val |-> IF signed /\ s[1] = "-" THEN 0 - v ELSE v, err |-> NoErr]

Max(a, b) == IF a > b THEN a ELSE b
Min(a, b) == IF a < b THEN a ELSE b

\* Go's integer division truncates toward zero
GoDiv(a, b) == IF a >= 0 THEN a \div b ELSE 0 - ((0 - a) \div b)

-----------------------------------------------------------------------------
(* The rule engine: the bodies of decideCompute, decideNetwork, decideStorage *)

\* fmt.Sprintf("%dMi", n), fmt.Sprintf("%dGi", n)
SprintfMi(n) == ToString(n) \o "Mi"
SprintfGi(n) == ToString(n) \o "Gi"

\* a number of cores n/d, in units of 1/600 core
Cores(n, d) == n * (600 \div d)

loadCoresTruncated(load) == 600 * GoDiv(load, 150)
\* float64(config.ExpectedLoad) / 150
loadCores(load) == Cores(load, 150)

dataSizeMemoryUndivided(dataSize) == SprintfMi(256 + dataSize)
\* fmt.Sprintf("%dMi", 256+(config.DataSize/4))
dataSizeMemory(dataSize) == SprintfMi(256 + GoDiv(dataSize, 4))

decideComputeSpecImportanceLast(c) ==
    LET cpu1 == IF c.ExpectedLoad > 300 THEN loadCores(c.ExpectedLoad) + Cores(3, 4)
                ELSE loadCores(c.ExpectedLoad)
        mem1 == IF c.ExpectedLoad > 300 THEN "512Mi" ELSE "256Mi"
        mem2 == IF c.DataSize > 50 THEN dataSizeMemory(c.DataSize) ELSE mem1
        cpu3 == IF c.ImportanceLevel = "high" THEN cpu1 + Cores(1, 4) ELSE cpu1
        mem3 == IF c.ImportanceLevel = "high" THEN "1Gi" ELSE mem2
    IN  [CPU |-> cpu3, Memory |-> mem3]
\* decideCompute: the assignments, each overriding the ones before it
decideComputeSpec(c) ==
    LET cpu0 == loadCores(c.ExpectedLoad)
        mem0 == "256Mi"
        cpu1 == IF c.ExpectedLoad > 300 THEN cpu0 + Cores(3, 4) ELSE cpu0
        mem1 == IF c.ExpectedLoad > 300 THEN "512Mi" ELSE mem0
        cpu2 == IF c.ImportanceLevel = "high" THEN cpu1 + Cores(1, 4) ELSE cpu1
        mem2 == IF c.ImportanceLevel = "high" THEN "1Gi" ELSE mem1
        mem3 == IF c.DataSize > 50 THEN dataSizeMemory(c.DataSize) ELSE mem2
    IN  [CPU |-> cpu2, Memory |-> mem3]

decideNetworkSpecAtLeast(c) ==
    LET bandwidth == IF c.NetworkTraffic >= 25 THEN "200Mbps" ELSE "50Mbps"
        ports     == IF c.ImportanceLevel = "high" THEN <<8080, 443>> ELSE <<8080>>
    IN  [Bandwidth |-> bandwidth, Ports |-> ports]
\* decideNetwork
decideNetworkSpec(c) ==
    LET bandwidth0 == "50Mbps"
        ports0     == <<8080>>
        bandwidth1 == IF c.NetworkTraffic > 25 THEN "200Mbps" ELSE bandwidth0
        ports1     == IF c.ImportanceLevel = "high" THEN Append(ports0, 443) ELSE ports0
    IN  [Bandwidth |-> bandwidth1, Ports |-> ports1]

decideStorageSpecMediumMore(c) ==
    LET capacity1 == IF c.DataSize > 250 THEN SprintfGi(5 + GoDiv(c.DataSize, 100))
                     ELSE "5Gi"
        class1    == IF c.DataSize > 250 THEN "premium" ELSE "standard"
        capacity2 == IF c.ImportanceLevel = "high" THEN "20Gi"
                     ELSE IF c.ImportanceLevel = "medium" THEN "10Gi"
                     ELSE capacity1
    IN  [Capacity |-> capacity2, Class |-> class1]
decideStorageSpecDataSizeLast(c) ==
    LET capacity1 == IF c.ImportanceLevel = "high" THEN "20Gi" ELSE "5Gi"
        capacity2 == IF c.DataSize > 250 THEN SprintfGi(5 + GoDiv(c.DataSize, 100))
                     ELSE capacity1
        class     == IF c.DataSize > 250 THEN "premium" ELSE "standard"
    IN  [Capacity |-> capacity2, Class |-> class]
\* decideStorage
decideStorageSpec(c) ==
    LET capacity0 == "5Gi"
        class0    == "standard"
        capacity1 == IF c.DataSize > 250 THEN SprintfGi(5 + GoDiv(c.DataSize, 100))
                     ELSE capacity0
        class1    == IF c.DataSize > 250 THEN "premium" ELSE class0
        capacity2 == IF c.ImportanceLevel = "high" THEN "20Gi" ELSE capacity1
    IN  [Capacity |-> capacity2, Class |-> class1]

\* the TimedResult each task sends
computeResult(c) ==
    [ZeroResult EXCEPT !.Name = "compute", !.ComputeSpec = decideComputeSpec(c)]
networkResult(c) ==
    [ZeroResult EXCEPT !.Name = "network", !.NetworkSpec = decideNetworkSpec(c)]
storageResult(c) ==
    [ZeroResult EXCEPT !.Name = "storage", !.StorageSpec = decideStorageSpec(c)]

-----------------------------------------------------------------------------
(* The aggregator collectTimedResourceSpecs and its three goroutines *)

ChanCapTwo == 3 - 1
\* make(chan TimedResult, 3)
ChanCap == 3

\* a goroutine's send on resultChan
Send(name, r) ==
    /\ running
    /\ tasks[name].pc = "running"
    /\ Len(resultChan) < ChanCap
    /\ resultChan' = Append(resultChan, r)
    /\ tasks' = [tasks EXCEPT ![name] = [pc |-> "sent", Error |-> r.Error]]
    /\ UNCHANGED <<agg, modelVars, envVars, viewVars>>

decideCompute == Send("compute", computeResult(agg.config))
decideNetwork == Send("network", networkResult(agg.config))
decideStorage == Send("storage", storageResult(agg.config))

\* A rule task made to fail.  The three tasks above always send Error: nil, so
\* the aggregator's failure branch runs only when a task is replaced by one
\* that sends a result carrying a failure under the task's name.
taskMadeToFail ==
    \E t \in Tasks : Send(t, [ZeroResult EXCEPT !.Name = t, !.Error = "made to fail"])

collectFailPartial(timedResults, r) ==
    [timedResults |-> timedResults,
     err |-> "error in " \o r.Name \o " decision: " \o r.Error]
\* return nil, fmt.Errorf("error in %s decision: %v", result.Name, result.Error)
collectFail(timedResults, r) ==
    [timedResults |-> NilMap,
     err |-> "error in " \o r.Name \o " decision: " \o r.Error]

resultKeyFixed(r) == "compute"
\* timedResults[result.Name] = result: the key
resultKey(r) == r.Name

loopDoneEarly(i) == i >= 2
loopDoneLate(i) == i >= 4
\* for i := 0; i < 3; i++: the loop is over
loopDone(i) == i >= 3

\* the command starts: the channel, the three goroutines and the map are made
collectStart ==
    /\ running
    /\ agg.pc = "start"
    /\ resultChan' = <<>>
    /\ tasks' = [t \in Tasks |-> [pc |-> "running", Error |-> NoErr]]
    /\ agg' = [agg EXCEPT !.pc = "recv", !.i = 0, !.timedResults = EmptyMap]
    /\ UNCHANGED <<modelVars, envVars, viewVars>>

\* one iteration of the loop: result := <-resultChan, and what follows it
collectRecv ==
    /\ running
    /\ agg.pc = "recv"
    /\ resultChan # <<>>
    /\ LET r  == Head(resultChan)
           tr == MapPut(agg.timedResults, resultKey(r), r)
       IN  /\ resultChan' = Tail(resultChan)
           /\ agg' = IF r.Error # NoErr
                     THEN [agg EXCEPT !.pc = "returned",
                                      !.ret = collectFail(agg.timedResults, r)]
                     ELSE IF loopDone(agg.i + 1)
                     THEN [agg EXCEPT !.pc = "returned", !.i = agg.i + 1,
                                      !.timedResults = tr,
                                      !.ret = [timedResults |-> tr, err |-> NoErr]]
                     ELSE [agg EXCEPT !.i = agg.i + 1, !.timedResults = tr]
    /\ UNCHANGED <<tasks, modelVars, envVars, viewVars>>

\* processResourceAllocation: the message made of what the aggregator returned
ProcessMsg(ret) ==
    IF ret.err # NoErr
    THEN [type |-> "ProcessErrorMsg", err |-> ret.err, results |-> NilMap]
    ELSE [type |-> "ProcessCompleteMsg", err |-> NoErr, results |-> ret.timedResults]

\* the aggregator before the command runs
AggIdle ==
    [pc |-> "idle", config |-> ZeroConfig, i |-> 0, timedResults |-> NilMap,
     ret |-> [timedResults |-> NilMap, err |-> NoErr]]

-----------------------------------------------------------------------------
(* The manifest and the summary *)

\* two decimal digits
Pad2(n) == IF n < 10 THEN "0" \o ToString(n) ELSE ToString(n)

\* fmt.Sprintf("%.2f", x) of the number x = num/den (den > 0), rounded to the
\* nearest hundredth.  No number of cores the rules produce, nor 0.8 times
\* one, lies halfway between two hundredths, so ties do not arise.
SprintfF2(num, den) ==
    LET a == IF num < 0 THEN 0 - num ELSE num
        h == (200 * a + den) \div (2 * den)
    IN  (IF num < 0 THEN "-" ELSE "") \o ToString(h \div 100) \o "." \o Pad2(h % 100)

portStringFirstOnly(ports) ==
    [i \in 1..Min(1, Len(ports)) |-> [containerPort |-> ports[i], protocol |-> "TCP"]]
\* the loop over ports: one containerPort entry per port, in order
portString(ports) ==
    [i \in 1..Len(ports) |-> [containerPort |-> ports[i], protocol |-> "TCP"]]

requestCPUFull(cpu) == [num |-> 5 * cpu, den |-> 3000]
\* computeResult.ComputeSpec.CPU*0.8, as the fraction num/den of a core
requestCPU(cpu) == [num |-> 4 * cpu, den |-> 3000]

\* generateKubernetesManifest: the fields the template fills in
generateKubernetesManifest(appName, timedResults, ports) ==
    LET computeR == MapGet(timedResults, "compute")
        networkR == MapGet(timedResults, "network")
        storageR == MapGet(timedResults, "storage")
    IN  [name      |-> Join(appName) \o "-deployment",
         app       |-> Join(appName),
         container |-> Join(appName) \o "-container",
         requests  |-> [cpu    |-> SprintfF2(requestCPU(computeR.ComputeSpec.CPU).num,
                                                 requestCPU(computeR.ComputeSpec.CPU).den),
                        memory |-> computeR.ComputeSpec.Memory],
         limits    |-> [cpu    |-> SprintfF2(computeR.ComputeSpec.CPU, 600),
                        memory |-> computeR.ComputeSpec.Memory],
         ports     |-> portString(ports),
         env       |-> [NETWORK_BANDWIDTH |-> networkR.NetworkSpec.Bandwidth,
                        STORAGE_CAPACITY  |-> storageR.StorageSpec.Capacity,
                        STORAGE_CLASS     |-> storageR.StorageSpec.Class]]

\* A path is a text whose separators are the elements "/"; the other
\* elements are characters or longer pieces without a separator.
Paths == Seq(STRING)

\* the path elements of a text: what stands between the separators
Split[path \in Paths] ==
    IF \A i \in 1..Len(path) : path[i] # "/" THEN <<path>>
    ELSE LET k == CHOOSE i \in 1..Len(path) :
                      path[i] = "/" /\ \A j \in 1..(i - 1) : path[j] # "/"
         IN  <<SubSeq(path, 1, k - 1)>> \o Split[SubSeq(path, k + 1, Len(path))]

\* filepath.Clean of a relative path, on its elements: empty elements and "."
\* are dropped, ".." removes the element before it, or stays where there is none
CleanElems[out \in Seq(Paths), elems \in Seq(Paths)] ==
    IF elems = <<>> THEN out
    ELSE LET e == Head(elems)
         IN  IF e = <<>> \/ e = <<".">> THEN CleanElems[out, Tail(elems)]
             ELSE IF e = <<".", ".">> /\ out # <<>> /\ out[Len(out)] # <<".", ".">>
             THEN CleanElems[SubSeq(out, 1, Len(out) - 1), Tail(elems)]
             ELSE CleanElems[Append(out, e), Tail(elems)]

\* the elements put together again with separators
Unsplit[elems \in Seq(Paths)] ==
    IF elems = <<>> THEN <<>>
    ELSE IF Len(elems) = 1 THEN Head(elems)
    ELSE Head(elems) \o <<"/">> \o Unsplit[Tail(elems)]

\* filepath.Clean of a relative path: the empty result is "."
Clean[path \in Paths] ==
    IF CleanElems[<<>>, Split[path]] = <<>> THEN <<".">>
    ELSE Unsplit[CleanElems[<<>>, Split[path]]]

\* filepath.Join(dir, file) with both non-empty: Clean(dir + "/" + file)
filepathJoin(dir, file) == Clean[dir \o <<"/">> \o file]

\* what os.MkdirAll and os.WriteFile can do
IOOutcomes == {"ok", "mkdir fails", "write fails"}

generateAndWriteManifestPathFirst(res, appName, path0, fs, io) ==
    LET k8sManifest == generateKubernetesManifest(appName, res,
                           MapGet(res, "network").NetworkSpec.Ports)
        outputPath  == Join(filepathJoin(<<"k8s">>, appName \o <<"-deployment.yaml">>))
    IN  IF res.isNil
        THEN [err |-> "no results available to generate manifest",
              path |-> path0, files |-> fs]
        ELSE IF io = "mkdir fails"
        THEN [err |-> "error creating k8s directory: mkdir k8s: permission denied",
              path |-> outputPath, files |-> fs]
        ELSE IF io = "write fails"
        THEN [err |-> "error writing Kubernetes manifest: open " \o outputPath
                          \o ": permission denied",
              path |-> outputPath, files |-> fs]
        ELSE [err |-> NoErr, path |-> outputPath,
              files |-> [f \in DOMAIN fs \cup {outputPath} |->
                            IF f = outputPath THEN k8sManifest ELSE fs[f]]]
\* generateAndWriteManifest: the error returned, the path recorded and the
\* files of the k8s directory afterwards
generateAndWriteManifest(res, appName, path0, fs, io) ==
    LET k8sManifest == generateKubernetesManifest(appName, res,
                           MapGet(res, "network").NetworkSpec.Ports)
        outputPath  == Join(filepathJoin(<<"k8s">>, appName \o <<"-deployment.yaml">>))
    IN  IF res.isNil
        THEN [err |-> "no results available to generate manifest",
              path |-> path0, files |-> fs]
        ELSE IF io = "mkdir fails"
        THEN [err |-> "error creating k8s directory: mkdir k8s: permission denied",
              path |-> path0, files |-> fs]
        ELSE IF io = "write fails"
        THEN [err |-> "error writing Kubernetes manifest: open " \o outputPath
                          \o ": permission denied",
              path |-> path0, files |-> fs]
        ELSE [err |-> NoErr, path |-> outputPath,
              files |-> [f \in DOMAIN fs \cup {outputPath} |->
                            IF f = outputPath THEN k8sManifest ELSE fs[f]]]

NoSummary ==
    [compute |-> ZeroComputeSpec, network |-> ZeroNetworkSpec,
     storage |-> ZeroStorageSpec, fileGenerated |-> ""]

\* the empty output string
NoOutput == [text |-> "", summary |-> NoSummary]

generateOutputWhateverErr(e, res, path) ==
    IF res.isNil THEN [text |-> "# No Results", summary |-> NoSummary]
    ELSE [text    |-> "# Resource Allocation Decision",
          summary |-> [compute |-> MapGet(res, "compute").ComputeSpec,
                       network |-> MapGet(res, "network").NetworkSpec,
                       storage |-> MapGet(res, "storage").StorageSpec,
                       fileGenerated |-> path]]
\* generateOutput: the Markdown text, by its parts
generateOutput(e, res, path) ==
    IF e # NoErr THEN NoOutput
    ELSE IF res.isNil THEN [text |-> "# No Results", summary |-> NoSummary]
    ELSE [text    |-> "# Resource Allocation Decision",
          summary |-> [compute |-> MapGet(res, "compute").ComputeSpec,
                       network |-> MapGet(res, "network").NetworkSpec,
                       storage |-> MapGet(res, "storage").StorageSpec,
                       fileGenerated |-> path]]

\* View: what the screen shows
View ==
    IF quitting
    THEN [screen |-> "exiting", error |-> NoErr, output |-> NoOutput]
    ELSE IF inputState = "processing"
    THEN [screen |-> "processing", error |-> NoErr, output |-> NoOutput]
    ELSE IF inputState = "done"
    THEN IF err # NoErr
         THEN [screen |-> "error", error |-> err, output |-> NoOutput]
         ELSE [screen |-> "output", error |-> NoErr, output |-> output]
    ELSE [screen |-> "wizard", error |-> NoErr, output |-> NoOutput]

-----------------------------------------------------------------------------
(* The wizard: initialModel and Update *)

LastInput == 3   \* len(m.inputs) - 1

Blur(ins, i)     == [ins EXCEPT ![i].focus = FALSE]
FocusInput(ins, i) == [ins EXCEPT ![i].focus = TRUE]


\* initialModel
InitModel ==
    /\ inputs = [i \in 0..LastInput |-> [value |-> <<>>, focus |-> (i = 0)]]
    /\ listIndex = 0
    /\ focused = 0
    /\ inputState = "text"
    /\ quitting = FALSE
    /\ config = ZeroConfig
    /\ processing = FALSE
    /\ result = NilMap
    /\ err = NoErr
    /\ k8sManifestPath = ""
    /\ output = NoOutput

\* nothing runs yet: no command, no goroutine, an empty k8s directory
InitEnv ==
    /\ tasks = [t \in Tasks |-> [pc |-> "idle", Error |-> NoErr]]
    /\ resultChan = <<>>
    /\ agg = AggIdle
    /\ files = [f \in {} |-> 0]
    /\ quitCmd = FALSE
    /\ running = TRUE
    /\ exitCode = -1
    /\ validateBlocks \in BOOLEAN
    /\ spinnerFrame = 0
    /\ width = 0
    /\ height = 0
    /\ ticks = 1          \* model.Init returns tickCmd()

Init == InitModel /\ InitEnv

\* case tea.KeyCtrlC
KeyCtrlC ==
    /\ running
    /\ quitting' = TRUE
    /\ quitCmd' = TRUE
    /\ UNCHANGED <<inputs, listIndex, focused, inputState, config, processing,
                   result, err, k8sManifestPath, output, procVars, files, running,
                   exitCode, validateBlocks, viewVars>>

\* the move to the next text input, or to the list after the last one
\* (the same code under KeyEnter and under KeyTab, KeyCtrlN)
NextInputKeepsFocus ==
    IF focused < LastInput
    THEN /\ inputs' = FocusInput(inputs, focused + 1)
         /\ focused' = focused + 1
         /\ UNCHANGED inputState
    ELSE /\ inputs' = inputs
         /\ inputState' = "list"
         /\ UNCHANGED focused
NextInput ==
    IF focused < LastInput
    THEN /\ inputs' = FocusInput(Blur(inputs, focused), focused + 1)
         /\ focused' = focused + 1
         /\ UNCHANGED inputState
    ELSE /\ inputs' = Blur(inputs, focused)
         /\ inputState' = "list"
         /\ UNCHANGED focused

collectInputsLastFirst(cfg, ins, selected) ==
    LET c0 == [cfg EXCEPT !.ImportanceLevel = selected, !.AppName = ins[0].value]
        load == Atoi(ins[1].value)
        dataSize == Atoi(ins[2].value)
        networkTraffic == Atoi(ins[3].value)
    IN  IF networkTraffic.err # NoErr
        THEN [config |-> c0, err |-> "invalid network traffic: " \o networkTraffic.err]
        ELSE IF dataSize.err # NoErr
        THEN [config |-> c0, err |-> "invalid data size: " \o dataSize.err]
        ELSE IF load.err # NoErr
        THEN [config |-> c0, err |-> "invalid expected load: " \o load.err]
        ELSE [config |-> [c0 EXCEPT !.ExpectedLoad = load.val,
                                    !.DataSize = dataSize.val,
                                    !.NetworkTraffic = networkTraffic.val],
              err |-> NoErr]
\* "Collect all inputs": the config and the error after the assignments made
\* before the first early return
collectInputs(cfg, ins, selected) ==
    LET c0 == [cfg EXCEPT !.ImportanceLevel = selected, !.AppName = ins[0].value]
        load == Atoi(ins[1].value)
        c1 == [c0 EXCEPT !.ExpectedLoad = load.val]
        dataSize == Atoi(ins[2].value)
        c2 == [c1 EXCEPT !.DataSize = dataSize.val]
        networkTraffic == Atoi(ins[3].value)
        c3 == [c2 EXCEPT !.NetworkTraffic = networkTraffic.val]
    IN  IF load.err # NoErr
        THEN [config |-> c0, err |-> "invalid expected load: " \o load.err]
        ELSE IF dataSize.err # NoErr
        THEN [config |-> c1, err |-> "invalid data size: " \o dataSize.err]
        ELSE IF networkTraffic.err # NoErr
        THEN [config |-> c2, err |-> "invalid network traffic: " \o networkTraffic.err]
        ELSE [config |-> c3, err |-> NoErr]

SubmitStaysOnList ==
    LET got == collectInputs(config, inputs, Items[listIndex + 1])
    IN  /\ config' = got.config
        /\ IF got.err # NoErr
           THEN /\ err' = got.err
                /\ inputState' = "done"
                /\ UNCHANGED <<processing, agg, ticks>>
           ELSE /\ processing' = TRUE
                /\ agg' = [AggIdle EXCEPT !.pc = "start", !.config = got.config]
                /\ ticks' = ticks + 1
                /\ UNCHANGED <<err, inputState>>
\* Enter on the list.  The list always holds its three items and filtering is
\* disabled, so SelectedItem() is an item and the !ok branch is never taken.
\* With processResourceAllocation one more tickCmd is started.
Submit ==
    LET got == collectInputs(config, inputs, Items[listIndex + 1])
    IN  /\ config' = got.config
        /\ IF got.err # NoErr
           THEN /\ err' = got.err
                /\ inputState' = "done"
                /\ UNCHANGED <<processing, agg, ticks>>
           ELSE /\ processing' = TRUE
                /\ inputState' = "processing"
                /\ agg' = [AggIdle EXCEPT !.pc = "start", !.config = got.config]
                /\ ticks' = ticks + 1
                /\ UNCHANGED err

\* case tea.KeyEnter
KeyEnter ==
    /\ running
    /\ IF inputState = "text"
       THEN /\ NextInput
            /\ UNCHANGED <<config, processing, err, agg, ticks>>
       ELSE IF inputState = "list"
       THEN /\ Submit
            /\ UNCHANGED <<inputs, focused>>
       ELSE UNCHANGED <<inputs, focused, inputState, config, processing, err, agg,
                        ticks>>
    /\ UNCHANGED <<listIndex, quitting, result, k8sManifestPath, output,
                   tasks, resultChan, envVars, spinnerFrame, width, height>>

KeyShiftTabFromAnyState ==
    /\ running
    /\ IF inputState = "text"
       THEN /\ inputs' = FocusInput(Blur(inputs, focused), Max(0, focused - 1))
            /\ focused' = Max(0, focused - 1)
            /\ UNCHANGED inputState
       ELSE /\ inputState' = "text"
            /\ focused' = LastInput
            /\ inputs' = FocusInput(inputs, LastInput)
    /\ UNCHANGED <<listIndex, quitting, config, processing, result, err,
                   k8sManifestPath, output, procVars, envVars, viewVars>>
\* case tea.KeyShiftTab, tea.KeyCtrlP
KeyShiftTab ==
    /\ running
    /\ IF inputState = "text"
       THEN /\ inputs' = FocusInput(Blur(inputs, focused), Max(0, focused - 1))
            /\ focused' = Max(0, focused - 1)
            /\ UNCHANGED inputState
       ELSE IF inputState = "list"
       THEN /\ inputState' = "text"
            /\ focused' = LastInput
            /\ inputs' = FocusInput(inputs, LastInput)
       ELSE UNCHANGED <<inputs, focused, inputState>>
    /\ UNCHANGED <<listIndex, quitting, config, processing, result, err,
                   k8sManifestPath, output, procVars, envVars, viewVars>>

\* case tea.KeyTab, tea.KeyCtrlN
KeyTab ==
    /\ running
    /\ IF inputState = "text"
       THEN NextInput
       ELSE UNCHANGED <<inputs, focused, inputState>>
    /\ UNCHANGED <<listIndex, quitting, config, processing, result, err,
                   k8sManifestPath, output, procVars, envVars, viewVars>>

\* the runes one key message carries (a key press, or a paste), by the
\* input that has the focus: a name or a path to the parent directory, or a
\* number, a negative number and a letter
Runes(i) ==
    IF i = 0 THEN {<<"a", "p", "p">>, <<".", ".", "/">>}
    ELSE {<<"3", "5", "0">>, <<"-", "5">>, <<"x">>}

\* inputs[1..3].Validate: a text that is not empty must be a number
Validate(s) ==
    IF s # <<>> /\ Atoi(s).err # NoErr THEN "must be a number" ELSE NoErr

\* the input has a Validate function (inputs[0] has none)
HasValidate(i) == i >= 1

\* a rune key in the text state: m.inputs[m.focused].Update(msg) inserts the
\* runes into the focused input (CharLimit is 6 or 30, above MaxText); a
\* textinput that blocks keeps the old value when Validate fails on the new
KeyRunes ==
    /\ running
    /\ inputState = "text"
    /\ \E r \in Runes(focused) :
          LET v == inputs[focused].value \o r
          IN  /\ Len(v) <= MaxText
              /\ inputs' = IF /\ inputs[focused].focus
                              /\ ~(validateBlocks /\ HasValidate(focused)
                                      /\ Validate(v) # NoErr)
                           THEN [inputs EXCEPT ![focused].value = v]
                           ELSE inputs
    /\ UNCHANGED <<listIndex, focused, inputState, quitting, config, processing,
                   result, err, k8sManifestPath, output, procVars, envVars, viewVars>>

\* an up or down key in the list state: m.list.Update(msg) moves the cursor
KeyUpDown ==
    /\ running
    /\ inputState = "list"
    /\ \E d \in {-1, 1} : listIndex' = Max(0, Min(Len(Items) - 1, listIndex + d))
    /\ UNCHANGED <<inputs, focused, inputState, quitting, config, processing,
                   result, err, k8sManifestPath, output, procVars, envVars, viewVars>>

\* case ProcessCompleteMsg
UpdateProcessComplete ==
    /\ running
    /\ agg.pc = "returned"
    /\ ProcessMsg(agg.ret).type = "ProcessCompleteMsg"
    /\ \E io \in IOOutcomes :
          LET msg == ProcessMsg(agg.ret).results
              gw  == generateAndWriteManifest(msg, config.AppName,
                                              k8sManifestPath, files, io)
              e   == IF gw.err # NoErr
                     THEN "failed to generate/write manifest: " \o gw.err
                     ELSE err
          IN  /\ processing' = FALSE
              /\ result' = msg
              /\ inputState' = "done"
              /\ err' = e
              /\ k8sManifestPath' = gw.path
              /\ files' = gw.files
              /\ output' = generateOutput(e, msg, gw.path)
    /\ quitCmd' = TRUE
    /\ agg' = [agg EXCEPT !.pc = "delivered"]
    /\ UNCHANGED <<inputs, listIndex, focused, quitting, config, tasks,
                   resultChan, running, exitCode, validateBlocks, viewVars>>

\* case ProcessErrorMsg
UpdateProcessError ==
    /\ running
    /\ agg.pc = "returned"
    /\ ProcessMsg(agg.ret).type = "ProcessErrorMsg"
    /\ processing' = FALSE
    /\ err' = ProcessMsg(agg.ret).err
    /\ inputState' = "done"
    /\ output' = generateOutput(ProcessMsg(agg.ret).err, result, k8sManifestPath)
    /\ quitCmd' = TRUE
    /\ agg' = [agg EXCEPT !.pc = "delivered"]
    /\ UNCHANGED <<inputs, listIndex, focused, quitting, config, result,
                   k8sManifestPath, tasks, resultChan, files, running, exitCode,
                   validateBlocks, viewVars>>

spinnerFrames == <<"f0", "f1", "f2", "f3", "f4", "f5", "f6", "f7", "f8", "f9">>

\* case TickMsg: the spinner moves and tickCmd is started again while
\* processing; otherwise the message changes nothing and no tick follows it
UpdateTick ==
    /\ running
    /\ ticks > 0
    /\ IF processing
       THEN /\ spinnerFrame' = (spinnerFrame + 1) % Len(spinnerFrames)
            /\ UNCHANGED ticks
       ELSE /\ ticks' = ticks - 1
            /\ UNCHANGED spinnerFrame
    /\ UNCHANGED <<modelVars, procVars, envVars, width, height>>

\* the sizes the terminal reports
Sizes == {[Width |-> 80, Height |-> 24], [Width |-> 120, Height |-> 40]}

\* case tea.WindowSizeMsg (the list takes the size for its layout only)
UpdateWindowSize ==
    /\ running
    /\ \E msg \in Sizes :
          /\ width' = msg.Width
          /\ height' = msg.Height
    /\ UNCHANGED <<modelVars, procVars, envVars, spinnerFrame, ticks>>

\* the runtime executes tea.Quit: p.Run returns nil, main returns (exit code
\* 0) and with it every goroutine ends
Quit ==
    /\ running
    /\ quitCmd
    /\ running' = FALSE
    /\ exitCode' = 0
    /\ UNCHANGED <<modelVars, procVars, files, quitCmd, validateBlocks, viewVars>>

Aggregate ==
    \/ collectStart
    \/ decideCompute
    \/ decideNetwork
    \/ decideStorage
    \/ taskMadeToFail
    \/ collectRecv
    \/ UpdateProcessComplete
    \/ UpdateProcessError
    \/ Quit

Next ==
    \/ KeyCtrlC
    \/ KeyEnter
    \/ KeyShiftTab
    \/ KeyTab
    \/ KeyRunes
    \/ KeyUpDown
    \/ Aggregate

Spec == Init /\ [][Next]_vars

\* The wizard after the user has typed the texts and has come back to the
\* first field: every numeric field is empty or holds a number.  From there
\* the keys that navigate and submit, and every other message the program
\* receives, the timer's and the terminal's included (a rune key changes the
\* text of the focused input and nothing else: KeyRunes).
TypedTexts == {<<>>, <<"3", "5", "0">>}

InitTyped ==
    /\ \E load \in TypedTexts, dataSize \in TypedTexts, networkTraffic \in TypedTexts :
          inputs = [i \in 0..LastInput |->
                       [value |-> CASE i = 0 -> <<"a", "p", "p">>
                                    [] i = 1 -> load
                                    [] i = 2 -> dataSize
                                    [] i = 3 -> networkTraffic,
                        focus |-> (i = 0)]]
    /\ listIndex = 0
    /\ focused = 0
    /\ inputState = "text"
    /\ quitting = FALSE
    /\ config = ZeroConfig
    /\ processing = FALSE
    /\ result = NilMap
    /\ err = NoErr
    /\ k8sManifestPath = ""
    /\ output = NoOutput
    /\ InitEnv
    /\ ~validateBlocks

NextMessages ==
    \/ KeyCtrlC
    \/ KeyEnter
    \/ KeyShiftTab
    \/ KeyTab
    \/ KeyUpDown
    \/ Aggregate
    \/ UpdateTick
    \/ UpdateWindowSize

SpecMessages == InitTyped /\ [][NextMessages]_vars

-----------------------------------------------------------------------------
(* The rule engine and the aggregator on the thresholds of the rules: the    *)
(* program from the moment Enter on the list has collected these inputs      *)

LoadTexts ==
    {<<"0">>, <<"2", "0", "0">>, <<"3", "0", "0">>, <<"3", "0", "1">>,
     <<"3", "5", "0">>, <<"-", "5">>}

DataSizeTexts ==
    {<<"0">>, <<"5", "0">>, <<"5", "1">>, <<"6", "0">>, <<"2", "5", "0">>,
     <<"2", "5", "1">>, <<"3", "0", "0">>, <<"3", "9", "9">>}

NetworkTrafficTexts == {<<"0">>, <<"2", "5">>, <<"2", "6">>, <<"3", "0">>}

InitRules ==
    /\ \E load \in LoadTexts, dataSize \in DataSizeTexts,
          networkTraffic \in NetworkTrafficTexts :
          inputs = [i \in 0..LastInput |->
                       [value |-> CASE i = 0 -> <<"a", "p", "p">>
                                    [] i = 1 -> load
                                    [] i = 2 -> dataSize
                                    [] i = 3 -> networkTraffic,
                        focus |-> FALSE]]
    /\ listIndex \in 0..(Len(Items) - 1)
    /\ focused = LastInput
    /\ inputState = "processing"
    /\ quitting = FALSE
    /\ config = collectInputs(ZeroConfig, inputs, Items[listIndex + 1]).config
    /\ processing = TRUE
    /\ result = NilMap
    /\ err = NoErr
    /\ k8sManifestPath = ""
    /\ output = NoOutput
    /\ tasks = [t \in Tasks |-> [pc |-> "idle", Error |-> NoErr]]
    /\ resultChan = <<>>
    /\ agg = [AggIdle EXCEPT !.pc = "start", !.config = config]
    /\ files = [f \in {} |-> 0]
    /\ quitCmd = FALSE
    /\ running = TRUE
    /\ exitCode = -1
    /\ validateBlocks = FALSE
    /\ spinnerFrame = 0
    /\ width = 0
    /\ height = 0
    /\ ticks = 1          \* the tickCmd started with processResourceAllocation

SpecRules == InitRules /\ [][Aggregate]_vars

\* the same with the one key that still acts in the processing state, under
\* the scheduling of the Go runtime and of the Bubble Tea event loop: a
\* goroutine that can run does run, a message or command that is pending is
\* handled.  Nothing obliges the user to press a key.
NextProcessing == Aggregate \/ KeyCtrlC

Fairness ==
    /\ WF_vars(collectStart)
    /\ WF_vars(decideCompute)
    /\ WF_vars(decideNetwork)
    /\ WF_vars(decideStorage)
    /\ WF_vars(collectRecv)
    /\ WF_vars(UpdateProcessComplete)
    /\ WF_vars(UpdateProcessError)
    /\ WF_vars(Quit)

\* the state after submission for every load and importance level, with one
\* data size and one network traffic
InitProcessing ==
    /\ InitRules
    /\ inputs[2].value = <<"6", "0">>
    /\ inputs[3].value = <<"3", "0">>

SpecProcessing == InitProcessing /\ [][NextProcessing]_vars /\ Fairness

-----------------------------------------------------------------------------
(* Properties *)

Range(f) == {f[x] : x \in DOMAIN f}

\* every TimedResult that exists: in the channel, in the aggregator's map, in
\* what it returned and in m.result
SeenResults ==
    Range(resultChan) \cup Range(agg.timedResults.kv)
        \cup Range(agg.ret.timedResults.kv) \cup Range(result.kv)

\* the decisions of the three rules among them (a result carrying a failure
\* holds no decision)
Decided(name) == {x \in SeenResults : x.Name = name /\ x.Error = NoErr}
ComputeSeen == {r.ComputeSpec : r \in Decided("compute")}
NetworkSeen == {r.NetworkSpec : r \in Decided("network")}
StorageSeen == {r.StorageSpec : r \in Decided("storage")}

\* collectTimedResourceSpecs has returned to its caller
Returned == agg.pc \in {"returned", "delivered"}

\* the tasks that have delivered a result, and those whose result carried a failure
Delivered == {t \in Tasks : tasks[t].pc = "sent"}
Failed    == {t \in Delivered : tasks[t].Error # NoErr}

\* C1: when collectTimedResourceSpecs has returned and at least one task has
\* delivered a result carrying a failure, whatever the order of completion, the
\* returned collection is nil (no partial results) and the returned error names
\* a decision that did fail, with that decision's failure.
C1_FailureReturnsNilNamingFailedDecision ==
    (Returned /\ Failed # {}) =>
        /\ agg.ret.timedResults = NilMap
        /\ \E t \in Failed :
              agg.ret.err = "error in " \o t \o " decision: " \o tasks[t].Error

\* C1 witness: compute and network were received without failure, storage's
\* result carried one, and the two results collected so far were dropped.
C1_Witness ==
    /\ agg.pc = "returned"
    /\ Failed = {"storage"}
    /\ DOMAIN agg.timedResults.kv = {"compute", "network"}
    /\ agg.ret.timedResults.isNil
    /\ agg.ret.err = "error in storage decision: made to fail"

\* C2 as stated: collectTimedResourceSpecs never returns, with a success or
\* with a failure, while one of the three tasks has not delivered its result.
C2_ReturnsOnlyAfterAllDelivered == Returned => Delivered = Tasks

\* C2 amended: collectTimedResourceSpecs never returns a success while one of
\* the three tasks has not delivered its result; a failure it returns as soon
\* as it has received a failing result, when at least the failing task has
\* delivered.
C2_SuccessOnlyAfterAllDelivered ==
    /\ (Returned /\ agg.ret.err = NoErr) => Delivered = Tasks
    /\ (Returned /\ agg.ret.err # NoErr) => Failed # {}

\* C2 witness: a success returned once the three tasks have delivered.
C2_Witness ==
    /\ agg.pc = "returned"
    /\ agg.ret.err = NoErr
    /\ Delivered = Tasks
    /\ resultChan = <<>>

\* C3: when collectTimedResourceSpecs returns a success, in every interleaving
\* and completion order, the collection has exactly the keys compute, network
\* and storage, each holding the result of the task of that name, whose
\* decision is the one the rule gives for the config whatever the order.
C3_SuccessHoldsTheThreeResults ==
    (Returned /\ agg.ret.err = NoErr) =>
        LET kv == agg.ret.timedResults.kv
        IN  /\ ~agg.ret.timedResults.isNil
            /\ DOMAIN kv = {"compute", "network", "storage"}
            /\ \A t \in DOMAIN kv : kv[t].Name = t /\ kv[t].Error = NoErr
            /\ kv["compute"] = computeResult(config)
            /\ kv["network"] = networkResult(config)
            /\ kv["storage"] = storageResult(config)

\* C3 witness: a success returned for a config of high importance, the three
\* slots filled with three different results.
C3_Witness ==
    /\ agg.pc = "returned"
    /\ agg.ret.err = NoErr
    /\ config.ImportanceLevel = "high"
    /\ Cardinality(Range(agg.ret.timedResults.kv)) = 3

\* C4: the memory decideCompute decides is (256 + floor(dataSize/4))Mi when
\* dataSize > 50, whatever the load and the importance; otherwise "1Gi" when
\* importance = high; otherwise "512Mi" when expectedLoad > 300; otherwise
\* "256Mi".
C4_MemoryPrecedence ==
    \A c \in ComputeSeen :
        c.Memory = IF config.DataSize > 50
                   THEN ToString(256 + (config.DataSize \div 4)) \o "Mi"
                   ELSE IF config.ImportanceLevel = "high" THEN "1Gi"
                   ELSE IF config.ExpectedLoad > 300 THEN "512Mi"
                   ELSE "256Mi"

\* C4 witness: the three rules apply at once (load 301, high, dataSize 300)
\* and the dataSize rule wins.
C4_Witness ==
    /\ config.ExpectedLoad = 301
    /\ config.ImportanceLevel = "high"
    /\ config.DataSize = 300
    /\ ~result.isNil
    /\ MapGet(result, "compute").ComputeSpec.Memory = "331Mi"

\* the config of C5 is the one being processed
C5_Config ==
    /\ config.ExpectedLoad = 350
    /\ config.ImportanceLevel = "high"
    /\ config.DataSize = 60

\* C5 as stated: for expectedLoad = 350, importance = high, dataSize = 60, the
\* CPU is 350/150 + 0.75 + 0.25 cores (that is (350 + 150)/150) and the memory
\* is "316Mi".
C5_Load350HighData60 ==
    C5_Config =>
        \A c \in ComputeSeen : 150 * c.CPU = 600 * (350 + 150) /\ c.Memory = "316Mi"

\* C5 amended: for that config the CPU is 350/150 + 0.75 + 0.25 cores and the
\* memory is "271Mi", which is 256 + floor(60/4), and not "1Gi".
C5_Load350HighData60Is271Mi ==
    C5_Config =>
        \A c \in ComputeSeen : 150 * c.CPU = 600 * (350 + 150) /\ c.Memory = "271Mi"

\* C5 witness: that config, its compute result delivered to the model.
C5_Witness ==
    /\ C5_Config
    /\ "compute" \in DOMAIN result.kv
    /\ result.kv["compute"].ComputeSpec.Memory # "1Gi"

\* C6: the CPU decideCompute decides, in 1/600 core, is 4*expectedLoad (the
\* quotient expectedLoad/150, not truncated), plus 450 iff expectedLoad > 300,
\* plus 150 iff importance = high; nothing else of the config enters it, and it
\* is 0 for expectedLoad = 0 when importance is not high.
C6_CPUFormula ==
    \A c \in ComputeSeen :
        /\ c.CPU = 4 * config.ExpectedLoad
                     + (IF config.ExpectedLoad > 300 THEN 450 ELSE 0)
                     + (IF config.ImportanceLevel = "high" THEN 150 ELSE 0)
        /\ (config.ExpectedLoad = 0 /\ config.ImportanceLevel # "high") => c.CPU = 0

\* C6 witness: load 200 at medium importance gives 800/600 = 1.33.. cores, a
\* quotient that truncation would make 1.
C6_Witness ==
    /\ config.ExpectedLoad = 200
    /\ config.ImportanceLevel = "medium"
    /\ \E c \in ComputeSeen : c.CPU = 800

\* C7: decideStorage decides the capacity "20Gi" whenever importance = high,
\* otherwise (5 + floor(dataSize/100))Gi when dataSize > 250, otherwise "5Gi";
\* the class is "premium" iff dataSize > 250, whatever the importance.
C7_StorageRule ==
    \A s \in StorageSeen :
        /\ s.Capacity = IF config.ImportanceLevel = "high" THEN "20Gi"
                        ELSE IF config.DataSize > 250
                        THEN ToString(5 + (config.DataSize \div 100)) \o "Gi"
                        ELSE "5Gi"
        /\ (s.Class = "premium") <=> (config.DataSize > 250)
        /\ s.Class \in {"standard", "premium"}

\* C7 witness: dataSize = 300 with importance = high gives "20Gi", "premium".
C7_Witness ==
    /\ config.DataSize = 300
    /\ config.ImportanceLevel = "high"
    /\ [Capacity |-> "20Gi", Class |-> "premium"] \in StorageSeen

\* C8: decideNetwork decides the bandwidth "200Mbps" iff networkTraffic > 25 and
\* "50Mbps" otherwise; the ports are <<8080, 443>> iff importance = high and
\* <<8080>> otherwise.
C8_NetworkRule ==
    \A n \in NetworkSeen :
        /\ n.Bandwidth = IF config.NetworkTraffic > 25 THEN "200Mbps" ELSE "50Mbps"
        /\ n.Ports = IF config.ImportanceLevel = "high" THEN <<8080, 443>>
                     ELSE <<8080>>
        /\ n.Ports[1] = 8080

\* C8 witness: networkTraffic = 25 itself, with importance = high.
C8_Witness ==
    /\ config.NetworkTraffic = 25
    /\ [Bandwidth |-> "50Mbps", Ports |-> <<8080, 443>>] \in NetworkSeen

\* the ProcessCompleteMsg handler ran and the manifest could not be written
ManifestFailed == inputState = "done" /\ ~result.isNil /\ err # NoErr

\* C9: when the three decisions succeeded and the manifest could not be
\* written, the final screen shows the failure together with the summary of the
\* compute, network and storage decisions.
C9_FailureShownWithSummary ==
    (ManifestFailed /\ ~quitting) =>
        /\ View.error = err
        /\ View.output.text # ""
        /\ View.output.summary.compute = MapGet(result, "compute").ComputeSpec
        /\ View.output.summary.network = MapGet(result, "network").NetworkSpec
        /\ View.output.summary.storage = MapGet(result, "storage").StorageSpec

\* C10: once a failure is recorded in m.err the program exits without a
\* further user action: it has ended, or tea.Quit has been returned, or a step
\* of the program itself (not a key press) is still to come.
C10_FailureIsTerminal ==
    err # NoErr => (~running \/ quitCmd \/ ENABLED Aggregate)

\* the program has ended after a failure was recorded in m.err
EndedWithError == ~running /\ err # NoErr

\* C11: the exit code is 0 when the run ended without an error and is not 0
\* when it ended with a wizard or processing error recorded (a decision
\* failure, a manifest that could not be written, an input that does not
\* parse at submission).
C11_ExitCodeTellsFailure ==
    ~running => (exitCode = 0 <=> err = NoErr)

\* the focused input is a numeric field whose text does not parse
FocusedDoesNotParse ==
    /\ running
    /\ inputState = "text"
    /\ focused \in 1..LastInput
    /\ Atoi(inputs[focused].value).err # NoErr

\* C12: while the focused numeric field holds a text that does not parse as
\* an integer (the empty text included), no step moves the focus to a later
\* field or to the importance list.
C12_ParseErrorBlocksAdvancing ==
    [][FocusedDoesNotParse => (inputState' = "text" /\ focused' <= focused)]_vars

\* the aggregator has been handed an InputSpec
Started == agg.pc # "idle"

\* C13: the InputSpec handed to the aggregator has an expected load, a data
\* size and a network traffic that are not negative.
C13_InputSpecNonNegative ==
    Started => /\ agg.config.ExpectedLoad >= 0
               /\ agg.config.DataSize >= 0
               /\ agg.config.NetworkTraffic >= 0

\* the ports of the network decision of this run
NetworkPorts == MapGet(result, "network").NetworkSpec.Ports

\* C14: every descriptor written has exactly one container port entry per
\* port of the network decision, in the order of the decision.
C14_PortListFollowsNetworkDecision ==
    \A f \in DOMAIN files :
        /\ Len(files[f].ports) = Len(NetworkPorts)
        /\ \A i \in 1..Len(NetworkPorts) :
              files[f].ports[i].containerPort = NetworkPorts[i]

C14_Witness ==
    /\ files # <<>>
    /\ Len(NetworkPorts) = 2
    /\ \E f \in DOMAIN files : Len(files[f].ports) = 2

\* the number h/100 written with two decimals and the sign given
Hundredths(negative, h) ==
    (IF negative THEN "-" ELSE "") \o ToString(h \div 100) \o "."
        \o (IF h % 100 < 10 THEN "0" ELSE "") \o ToString(h % 100)

Abs(n) == IF n < 0 THEN 0 - n ELSE n

\* the compute decision of this run (CPU in units of 1/600 core)
ComputeDecision == MapGet(result, "compute").ComputeSpec

\* C15: in every descriptor written the CPU request is 0.8 times the CPU of
\* the compute decision and the CPU limit is that CPU, each written as the
\* nearest number with two decimals, and the memory request and the memory
\* limit are both the memory string of the compute decision.
C15_RequestsAndLimits ==
    \A f \in DOMAIN files :
        LET cpu == ComputeDecision.CPU
        IN  /\ \E h \in 0..Abs(cpu) :
                  /\ Abs(30 * h - 4 * Abs(cpu)) <= 15
                  /\ files[f].requests.cpu = Hundredths(cpu < 0, h)
            /\ \E h \in 0..Abs(cpu) :
                  /\ Abs(6 * h - Abs(cpu)) <= 3
                  /\ files[f].limits.cpu = Hundredths(cpu < 0, h)
            /\ files[f].requests.memory = ComputeDecision.Memory
            /\ files[f].limits.memory = ComputeDecision.Memory

C15_Witness ==
    /\ files # <<>>
    /\ ComputeDecision.CPU = 2000
    /\ \E f \in DOMAIN files :
          /\ files[f].requests.cpu = "2.67"
          /\ files[f].limits.cpu = "3.33"
          /\ files[f].requests.memory = "1Gi"

\* C16: the aggregator is started at most once in a run (once it has been
\* started no step starts it again) and from then on neither the collected
\* config nor the InputSpec the aggregator works on changes.
C16_StartedOnceConfigFrozen ==
    [][Started => /\ agg'.pc # "idle"
                  /\ (agg'.pc = "start" => agg.pc = "start")
                  /\ agg'.config = agg.config
                  /\ config' = config
                  /\ agg.config = config]_vars

C16_Witness ==
    /\ agg.pc = "delivered"
    /\ inputState = "done"
    /\ config.ExpectedLoad = 350
    /\ agg.config = config

\* the aggregator's failure has been delivered as a ProcessErrorMsg
ProcessErrorDelivered == agg.pc = "delivered" /\ agg.ret.err # NoErr

\* C17: after a ProcessErrorMsg no descriptor exists and no path of one is
\* recorded, no results are kept and no output text or summary is made, and
\* the final screen (unless the user interrupted) shows the aggregator's
\* failure.
C17_DecisionFailureAbortsRun ==
    ProcessErrorDelivered =>
        /\ inputState = "done"
        /\ files = <<>>
        /\ k8sManifestPath = ""
        /\ result = NilMap
        /\ output = NoOutput
        /\ err = agg.ret.err
        /\ ~quitting => (View.screen = "error" /\ View.error = agg.ret.err
                            /\ View.output = NoOutput)

C17_Witness ==
    /\ ProcessErrorDelivered
    /\ ~running
    /\ ~quitting
    /\ View.error = "error in storage decision: made to fail"

\* C18 as stated: every task runs to completion in every execution, so that
\* when the program has ended no task is left that has not sent its result.
C18_EveryTaskCompletes ==
    ~running => \A t \in Tasks : tasks[t].pc # "running"

\* C18: while the program runs, a task that has not yet sent finds room in
\* the result channel, whether or not the aggregator still receives: its send
\* never blocks.  (A task that has not sent when the program exits ends with
\* the process.)
C18_SendNeverBlocks ==
    \A t \in Tasks :
        (running /\ tasks[t].pc = "running") => Len(resultChan) < ChanCap

C18_Witness ==
    /\ running
    /\ agg.pc = "returned"
    /\ agg.ret.err # NoErr
    /\ agg.i = 0
    /\ Len(resultChan) = 1
    /\ \E t \in Tasks : tasks[t].pc = "running"

\* the numeric fields whose text does not parse, and how the message names them
Unparseable == {i \in 1..LastInput : Atoi(inputs[i].value).err # NoErr}
FieldName ==
    [i \in 1..LastInput |-> CASE i = 1 -> "expected load"
                              [] i = 2 -> "data size"
                              [] i = 3 -> "network traffic"]

\* the wizard ended at submission, without starting the aggregator
RejectedAtSubmission == inputState = "done" /\ ~Started

\* C19: when the wizard is in the done state without the aggregator started,
\* some numeric field does not parse, the error names the first such field
\* (expected load, data size, network traffic) and no descriptor is written;
\* when the aggregator is started, the three fields parse and its InputSpec
\* holds the app name, the three parsed values and the selected item.
C19_StartedOnlyWithFullInputSpec ==
    /\ RejectedAtSubmission =>
          /\ Unparseable # {}
          /\ \E i \in Unparseable :
                /\ \A j \in Unparseable : i <= j
                /\ err = "invalid " \o FieldName[i] \o ": "
                             \o Atoi(inputs[i].value).err
          /\ files = <<>>
          /\ k8sManifestPath = ""
    /\ Started =>
          /\ Unparseable = {}
          /\ agg.config = [AppName         |-> inputs[0].value,
                           ExpectedLoad    |-> Atoi(inputs[1].value).val,
                           DataSize        |-> Atoi(inputs[2].value).val,
                           NetworkTraffic  |-> Atoi(inputs[3].value).val,
                           ImportanceLevel |-> Items[listIndex + 1]]

C19_Witness ==
    /\ RejectedAtSubmission
    /\ Unparseable = {2, 3}
    /\ inputs[2].value = <<>>
    /\ err = "invalid data size: strconv.Atoi: parsing \"\": invalid syntax"

\* C20 as stated: once in the processing state, a ProcessCompleteMsg or a
\* ProcessErrorMsg is eventually delivered and the wizard moves to done.
C20_ProcessingLeadsToDone ==
    (inputState = "processing") ~> (inputState = "done" /\ agg.pc = "delivered")

\* C20: once in the processing state the program eventually ends, and it
\* ends either after the one message of the aggregator was delivered and the
\* wizard moved to done, or after the user interrupted it with ctrl+c.
C20_ProcessingLeadsToExit ==
    (inputState = "processing") ~>
        (/\ ~running
         /\ \/ (inputState = "done" /\ agg.pc = "delivered")
            \/ quitting)

C20_Witness ==
    /\ ~running
    /\ ~quitting
    /\ inputState = "done"
    /\ agg.pc = "delivered"
    /\ agg.ret.err = NoErr

\* the path the summary lists ("" when it lists none or there is no summary)
ListedPath == output.summary.fileGenerated

\* the descriptor of this run has been written
Written == files # <<>>

\* C21 as stated: the summary lists a path exactly when the descriptor was
\* written, the recorded path is not empty only then, and it is
\* k8s/<appname>-deployment.yaml for the collected application name.
C21_PathIsK8sAppname ==
    /\ (ListedPath # "") <=> Written
    /\ (k8sManifestPath # "") => Written
    /\ Written => k8sManifestPath = "k8s/" \o Join(config.AppName) \o "-deployment.yaml"

\* C21: the summary lists a path exactly when the descriptor was written; the
\* recorded path is not empty only then, it is the listed path and the name
\* of the one file written, and it is k8s/<appname>-deployment.yaml for the
\* collected application name when that name holds no path separator (with
\* separators it is the cleaned form of that path, which filepath.Join makes).
C21_PathListedIffWritten ==
    /\ (ListedPath # "") <=> Written
    /\ (k8sManifestPath # "") <=> Written
    /\ Written =>
          /\ ListedPath = k8sManifestPath
          /\ DOMAIN files = {k8sManifestPath}
          /\ err = NoErr
          /\ files[k8sManifestPath].app = Join(config.AppName)
          /\ (\A i \in 1..Len(config.AppName) : config.AppName[i] # "/")
                => k8sManifestPath
                       = "k8s/" \o Join(config.AppName) \o "-deployment.yaml"

C21_Witness ==
    /\ Written
    /\ config.AppName = <<"a", "p", "p">>
    /\ ListedPath = "k8s/app-deployment.yaml"
    /\ inputState = "done"

\* the text inputs that are focused
FocusedInputs == {i \in 0..LastInput : inputs[i].focus}

FocusInvariant ==
    /\ focused \in 0..LastInput
    /\ inputState = "text" => FocusedInputs = {focused}
    /\ inputState \in {"list", "processing", "done"} =>
          (focused = LastInput /\ FocusedInputs = {})

FocusStep ==
    /\ (inputState # "list" /\ inputState' = "list") =>
          (inputState = "text" /\ focused = LastInput)
    /\ (inputState = "list" /\ inputState' = "text") => focused' = LastInput
    /\ (inputState = "text" /\ inputState' = "text") =>
          \/ focused' = focused
          \/ focused' = focused + 1
          \/ focused' = focused - 1

\* C22: the focused index is always within 0..3; in the text state exactly
\* the input at the focused index is focused; in the list, processing and done
\* states the focused index is 3 and no input is focused.  The list state is
\* entered only from field 3, leaving the list for the text state leads to
\* field 3, and a step in the text state moves the focus by at most one field
\* (never below field 0).
C22_FocusInvariant ==
    []FocusInvariant /\ [][FocusStep]_vars

C22_Witness ==
    /\ inputState = "text"
    /\ focused = LastInput
    /\ FocusedInputs = {LastInput}
    /\ listIndex = 2
    /\ inputs[1].value = <<"3", "5", "0">>

\* the step in which the aggregator's message is handled
MessageHandled ==
    /\ agg.pc = "returned"
    /\ agg'.pc = "delivered"
    /\ inputState' = "done"

\* what no key changes outside the text and list states: the focus, the
\* texts, the selected item and the collected config
WizardFrame ==
    /\ focused' = focused
    /\ inputs' = inputs
    /\ listIndex' = listIndex
    /\ config' = config

\* C23: in the processing state every step leaves the focus, the texts, the
\* selected item and the config unchanged, and leaves the state unchanged
\* unless it is the handling of ProcessCompleteMsg or ProcessErrorMsg, which
\* leads to done; in the done state every step leaves the state, the focus,
\* the texts, the config, the result, the error and the output unchanged.
C23_ProcessingAndDoneNotLeft ==
    [][/\ inputState = "processing" =>
             /\ WizardFrame
             /\ inputState' = "processing" \/ MessageHandled
       /\ inputState = "done" =>
             /\ WizardFrame
             /\ inputState' = "done"
             /\ result' = result
             /\ err' = err
             /\ output' = output
             /\ k8sManifestPath' = k8sManifestPath]_vars

C23_Witness ==
    /\ inputState = "done"
    /\ ~running
    /\ quitting
    /\ spinnerFrame = 5
    /\ width = 120
    /\ result # NilMap

\* the largest number of hundredths of a core the descriptor of this run can hold
MostHundredths == Abs(ComputeDecision.CPU) \div 6 + 1

\* C24: in every descriptor written the CPU limit is the written form of a
\* number that is not negative, and the CPU request that of a number that is
\* not negative and not above the limit.
C24_RequestWithinNonNegativeLimit ==
    \A f \in DOMAIN files :
        \E limit \in 0..MostHundredths :
            /\ files[f].limits.cpu = Hundredths(FALSE, limit)
            /\ \E request \in 0..limit :
                  files[f].requests.cpu = Hundredths(FALSE, request)

\* the InputSpec of this run with another importance level
WithImportance(level) == [agg.config EXCEPT !.ImportanceLevel = level]

\* the level medium for low and low for medium
OtherOrdinaryLevel ==
    IF agg.config.ImportanceLevel = "medium" THEN "low" ELSE "medium"

\* the three decisions the rules make for an InputSpec
Decisions(c) == <<decideComputeSpec(c), decideNetworkSpec(c), decideStorageSpec(c)>>

\* C25: for every expected load, data size and network traffic, a run with
\* importance medium or low decides for compute, network and storage what the
\* rules decide for the same values with the other of the two levels; a run
\* with importance high decides something else than for medium and for low.
C25_MediumAndLowIndistinguishable ==
    /\ agg.config.ImportanceLevel \in {"medium", "low"} =>
          /\ ComputeSeen \subseteq {decideComputeSpec(WithImportance(OtherOrdinaryLevel))}
          /\ NetworkSeen \subseteq {decideNetworkSpec(WithImportance(OtherOrdinaryLevel))}
          /\ StorageSeen \subseteq {decideStorageSpec(WithImportance(OtherOrdinaryLevel))}
    /\ (agg.config.ImportanceLevel = "high" /\ Returned /\ agg.ret.err = NoErr) =>
          LET got == <<MapGet(agg.ret.timedResults, "compute").ComputeSpec,
                       MapGet(agg.ret.timedResults, "network").NetworkSpec,
                       MapGet(agg.ret.timedResults, "storage").StorageSpec>>
          IN  /\ got # Decisions(WithImportance("medium"))
              /\ got # Decisions(WithImportance("low"))

C25_Witness ==
    /\ agg.config.ImportanceLevel = "low"
    /\ agg.config.ExpectedLoad = 350
    /\ agg.config.DataSize = 300
    /\ Returned
    /\ agg.ret.err = NoErr
    /\ ComputeSeen # {}
    /\ NetworkSeen # {}
    /\ StorageSeen # {}

=============================================================================
